---- MODULE Spec2Model ----
(***************************************************************************)
(* events-api: the REST backend in its two deployments.                    *)
(*   serverless  = src/api.js            (refresh tokens tracked in Redis) *)
(*   standalone  = src/unnamed/part_000  (stateless refresh, reset flow)   *)
(* A handler whose I/O is awaited is one action.  The calls the code does  *)
(* not await (Redis SADD/SREM/SISMEMBER, the UPDATE of setNewPassword)     *)
(* are put on the client's command queue and land in a later step.         *)
(* Time is in seconds, as in the iat/exp claims of jsonwebtoken.           *)
(***************************************************************************)
EXTENDS Integers, Sequences, FiniteSets, TLC

VARIABLES
    deployment,   \* which of the two programs runs
    express,      \* major version of express the program is installed with
    tz,           \* time zone of the server, hours east of UTC
    users,        \* table users: row i has id i
    events,       \* table events
    nextEventId,  \* AUTO_INCREMENT of events.id
    registry,     \* Redis set "refreshTokens"
    redisQueue,   \* commands sent to Redis whose reply nobody awaits
    dbQueue,      \* statements sent to MySQL whose reply nobody awaits
    now,          \* wall clock, seconds
    ticks,        \* number of clock steps taken
    nreq,         \* number of requests served
    issued,       \* tokens clients have received (responses, reset e-mails)
    rotated,      \* refresh tokens exchanged by /users/refresh, not issued again since
    loggedOut,    \* refresh tokens given to /users/logout, not issued again since
    pwReset,      \* per user id: password of the last /set-new-password answered 200
    usedReset,    \* reset tokens that /set-new-password has accepted
    resp          \* the last request and its response

vars == << deployment, express, tz, users, events, nextEventId, registry, redisQueue,
           dbQueue, now, ticks, nreq, issued, rotated, loggedOut, pwReset,
           usedReset, resp >>

----------------------------------------------------------------------------
(* Bounds *)

MaxRequests == 2
MaxTicks == 1

(* Program constants, in seconds *)
AccessTTL == 86400
ResetTTL == 3600

Deployments == {"serverless", "standalone"}
ExpressVersions == {4, 5}
Emails == {"a@x", "b@x"}
NewEmails == {"c@x"}
Passwords == {"p1", "p2"}
Days == {1, 2}
TickSteps == {ResetTTL, AccessTTL}

NoExp == -1
NoToken == [secret |-> "none", id |-> 0, email |-> "", iat |-> 0, exp |-> NoExp]
Forged == [secret |-> "bad", id |-> 2, email |-> "b@x", iat |-> 0, exp |-> NoExp]
NoUser == [id |-> 0, email |-> ""]
NoPassword == ""

----------------------------------------------------------------------------
(* jsonwebtoken *)

\* jwt.sign(payload, secret, {expiresIn}): the payload gets iat = now and,
\* with expiresIn, exp = iat + expiresIn.  Equal inputs in the same second
\* give the same string.
jwtSign(user, secret, ttl, t) ==
    [secret |-> secret, id |-> user.id, email |-> user.email, iat |-> t,
     exp |-> IF ttl = NoExp THEN NoExp ELSE t + ttl]

\* jwt.verify(token, secret): signature made with this secret, and not expired
\* (jsonwebtoken rejects when clock >= exp).
jwtVerify(token, secret, t) ==
    /\ token.secret = secret
    /\ (token.exp = NoExp \/ t < token.exp)

jwtDecode(token) == [id |-> token.id, email |-> token.email]

generateAccessToken(user, t) == jwtSign(user, "access", AccessTTL, t)
generateRefreshToken(user, t) == jwtSign(user, "refresh", NoExp, t)
generateResetToken(user, t) == jwtSign(user, "reset", ResetTTL, t)

----------------------------------------------------------------------------
(* JavaScript values that the handlers test with `!` *)

Truthy(v) == v \notin {"false", "undefined", "null"}

----------------------------------------------------------------------------
(* Requests and responses *)

NoResp ==
    [route |-> "none", status |-> 0, by |-> "none", auth |-> NoToken,
     token |-> NoToken, user |-> NoUser, id |-> 0, email |-> "",
     password |-> NoPassword, key |-> "", value |-> "", rows |-> {}, seen |-> FALSE,
     accessToken |-> NoToken, refreshToken |-> NoToken]

Request(route, auth) == [NoResp EXCEPT !.route = route, !.auth = auth]

\* res.status(s).json(..) / res.sendStatus(s) in a route handler
Reply(rq, s) == [rq EXCEPT !.status = s, !.by = "handler"]

\* What the client can put in a request: nothing, a token it was given, or a
\* token signed with a key that is not the server's.  A token given for one
\* purpose and presented for another fails jwt.verify like the forged one.
Held(secret) == {t \in issued : t.secret = secret}
AuthHeaders == {NoToken, Forged} \cup Held("access")
RefreshTokens == {NoToken, Forged} \cup Held("refresh")
ResetTokens == {NoToken, Forged} \cup Held("reset")

\* verifyToken without the `if (err)` branch: any header passes
verifyTokenIgnoringErr(authHeader, t) ==
    IF authHeader = NoToken
    THEN [status |-> 401, user |-> NoUser]
    ELSE [status |-> 0, user |-> jwtDecode(authHeader)]

\* verifyToken(req, res, next): status 0 stands for next()
verifyToken(authHeader, t) ==
    IF authHeader = NoToken
    THEN [status |-> 401, user |-> NoUser]
    ELSE IF ~jwtVerify(authHeader, "access", t)
         THEN [status |-> 403, user |-> NoUser]
         ELSE [status |-> 0, user |-> jwtDecode(authHeader)]

\* verifyToken answered instead of calling next()
Rejected(rq, v) ==
    [Request(rq.route, rq.auth) EXCEPT !.status = v.status, !.by = "verifyToken"]

\* app.use((err, req, res, next) => ...) and where it stands among the layers:
\* the standalone program registers it after its routes, the serverless one
\* before app.use("/api", router), so an error passed to next(err) by a router
\* route finds no error middleware after it and ends in express's final handler.
errorMiddlewareAfterRoutes == deployment = "standalone"

\* An async handler threw or an awaited call rejected.  express 4 drops the
\* rejected promise and the request is never answered; express 5 passes the
\* error to next(err).
Thrown(rq, user) ==
    LET r == [Request(rq.route, rq.auth) EXCEPT !.user = user] IN
    IF express = 4
    THEN [r EXCEPT !.status = 0, !.by = "unanswered"]
    ELSE IF errorMiddlewareAfterRoutes
         THEN [r EXCEPT !.status = 500, !.by = "errorMiddleware"]
         ELSE [r EXCEPT !.status = 500, !.by = "finalhandler"]

----------------------------------------------------------------------------
(* users *)

RowsWithEmail(email) == {i \in DOMAIN users : users[i].email = email}

\* rows[0] of SELECT * FROM users WHERE email = ? (0: no row)
FirstRowWithEmail(email) ==
    IF RowsWithEmail(email) = {} THEN 0
    ELSE CHOOSE i \in RowsWithEmail(email) : \A j \in RowsWithEmail(email) : i <= j

findUserBasedOnCredentials(email, password) ==
    LET i == FirstRowWithEmail(email) IN
    IF i = 0 \/ users[i].password # password
    THEN NoUser
    ELSE [id |-> i, email |-> users[i].email]

findUserBasedOnEmail(email) ==
    LET i == FirstRowWithEmail(email) IN
    IF i = 0 \/ users[i].email # email
    THEN NoUser
    ELSE [id |-> i, email |-> users[i].email]

\* UPDATE users SET password = ? WHERE id = ?
UpdatePassword(rows, userId, password) ==
    [i \in DOMAIN rows |->
        IF i = userId THEN [rows[i] EXCEPT !.password = password] ELSE rows[i]]

\* rows[0] of SELECT * FROM users WHERE id = ? (the empty set: undefined)
getUserById(userId) ==
    IF userId \in DOMAIN users THEN {[id |-> userId, email |-> users[userId].email]} ELSE {}

\* the columns of table users that the model keeps
UserColumns == {"email", "password"}

\* updateUserData that leaves the password column alone
updateUserDataExceptPassword(userId, data, key) ==
    [i \in DOMAIN users |->
        IF i = userId /\ key # "password" THEN [users[i] EXCEPT ![key] = data]
        ELSE users[i]]

\* UPDATE users SET ${key} = ? WHERE id = ?
updateUserData(userId, data, key) ==
    [i \in DOMAIN users |->
        IF i = userId THEN [users[i] EXCEPT ![key] = data] ELSE users[i]]

----------------------------------------------------------------------------
(* Session registry *)

\* removeRefreshTokenFromRedis that sends no command
removeRefreshTokenFromRedisSkipped(q, refreshToken) == q

\* redisClient.sAdd / sRem / sIsMember: the command goes on the connection
addRefreshTokenToRedis(q, refreshToken) == Append(q, [op |-> "sAdd", token |-> refreshToken])
removeRefreshTokenFromRedis(q, refreshToken) == Append(q, [op |-> "sRem", token |-> refreshToken])

\* An async function: what the caller gets is the promise, not the reply.
refreshTokenExistsInRedis(refreshToken) == "promise"

----------------------------------------------------------------------------
(* events *)

MILISECONDS_IN_AN_HOUR == 3600000
MillisecondsInADay == 24 * MILISECONDS_IN_AN_HOUR

\* new Date(date).getTime() for a date-only string naming calendar day `date`:
\* midnight UTC of that day.
getTime(date) == date * MillisecondsInADay

\* Date.prototype.getTimezoneOffset(): minutes from local time to UTC, for a
\* server whose clock is zone hours east of UTC.
getTimezoneOffset(zone) == 0 - 60 * zone

\* getEventForCertainDate: the value bound to DATE(from_date) = ?, as the
\* calendar day its ISO string names.
parsedDate(date, zone) ==
    LET differenceBetweenZuluAndLocalTimezone == getTimezoneOffset(zone) \div 60
    IN (getTime(date) - differenceBetweenZuluAndLocalTimezone * MILISECONDS_IN_AN_HOUR)
           \div MillisecondsInADay

\* getEvents with the owner filter left out of the WHERE clause
getEventsOfAnyone(user_id) == events

getEvents(user_id) == {e \in events : e.user_id = user_id}

getEventById(id, user_id) == {e \in events : e.id = id /\ e.user_id = user_id}

getEventForCertainDate(date, user_id) ==
    {e \in events : e.from_date = parsedDate(date, tz) /\ e.user_id = user_id}

\* DELETE FROM events WHERE id = ? AND user_id = ${user_id}
removeEvent(id, user_id) == {e \in events : ~(e.id = id /\ e.user_id = user_id)}

\* UPDATE events SET name = ?, ..., from_date = ? ... WHERE id = ?
updateEvent(id, updatedEvent) ==
    {IF e.id = id
     THEN [e EXCEPT !.name = updatedEvent.name, !.from_date = updatedEvent.from_date]
     ELSE e : e \in events}

\* INSERT INTO events (...) VALUES (..., ${user_id})
createEvent(event, user_id) ==
    events \cup {[id |-> nextEventId, user_id |-> user_id, name |-> event.name,
                  from_date |-> event.from_date]}

----------------------------------------------------------------------------
(* Initial state: the stores outlive the process.  Two users registered     *)
(* earlier each own one event; the first has logged in at time 0, so the    *)
(* serverless program has that refresh token in the registry; the           *)
(* standalone program has mailed the first user a reset token.              *)

TimeZones == {-5, 2}

UserA == [id |-> 1, email |-> "a@x"]

Init ==
    /\ deployment \in Deployments
    /\ express \in ExpressVersions
    /\ tz \in TimeZones
    /\ users = << [email |-> "a@x", password |-> "p1"],
                  [email |-> "b@x", password |-> "p1"] >>
    /\ events = {[id |-> 1, user_id |-> 1, name |-> "n1", from_date |-> 1],
                 [id |-> 2, user_id |-> 2, name |-> "n1", from_date |-> 1]}
    /\ nextEventId = 3
    /\ registry = IF deployment = "serverless"
                  THEN {generateRefreshToken(UserA, 0)} ELSE {}
    /\ redisQueue = << >>
    /\ dbQueue = << >>
    /\ now = 0
    /\ ticks = 0
    /\ nreq = 0
    /\ issued = {generateAccessToken(UserA, 0), generateRefreshToken(UserA, 0)}
                \cup IF deployment = "standalone"
                     THEN {generateResetToken(UserA, 0)} ELSE {}
    /\ rotated = {}
    /\ loggedOut = {}
    /\ pwReset = [i \in {1, 2} |-> NoPassword]
    /\ usedReset = {}
    /\ resp = NoResp

Served == nreq' = nreq + 1
Clock == UNCHANGED << now, ticks >>
Config == UNCHANGED << deployment, express, tz >>
EventStore == UNCHANGED << events, nextEventId >>
Sessions == UNCHANGED << registry, redisQueue, rotated, loggedOut >>
ResetFlow == UNCHANGED << dbQueue, pwReset, usedReset >>

----------------------------------------------------------------------------
(* POST /users/register *)

Register(email, password, confirm_password, complete, dbOk) ==
    /\ nreq < MaxRequests
    /\ LET rq == [Request("POST /users/register", NoToken) EXCEPT
                     !.email = email, !.password = password,
                     !.seen = RowsWithEmail(email) # {}]
           user == findUserBasedOnCredentials(email, password)
           user_id == Len(users) + 1
           created == [id |-> user_id, email |-> email]
           accessToken == generateAccessToken(created, now)
           refreshToken == generateRefreshToken(created, now)
       IN
       IF ~complete \/ password # confirm_password
       THEN resp' = Reply(rq, 400) /\ UNCHANGED << users, issued, pwReset >>
       ELSE /\ dbQueue = << >>
            /\ IF ~dbOk
               THEN resp' = Thrown(rq, NoUser) /\ UNCHANGED << users, issued, pwReset >>
               ELSE IF user # NoUser
               THEN resp' = Reply(rq, 409) /\ UNCHANGED << users, issued, pwReset >>
               ELSE /\ users' = Append(users, [email |-> email, password |-> password])
                    /\ pwReset' = [i \in DOMAIN users' |->
                                      IF i \in DOMAIN pwReset THEN pwReset[i] ELSE NoPassword]
                    /\ issued' = issued \cup {accessToken, refreshToken}
                    /\ resp' = [Reply(rq, 200) EXCEPT !.id = user_id,
                                   !.accessToken = accessToken,
                                   !.refreshToken = refreshToken]
    /\ Served /\ Clock /\ Config /\ EventStore /\ Sessions
    /\ UNCHANGED << dbQueue, usedReset >>

(* POST /users/login *)

Login(email, password, dbOk) ==
    /\ nreq < MaxRequests
    /\ LET rq == [Request("POST /users/login", NoToken) EXCEPT
                     !.email = email, !.password = password]
           user == findUserBasedOnCredentials(email, password)
           accessToken == generateAccessToken(user, now)
           refreshToken == generateRefreshToken(user, now)
       IN
       IF email = "" \/ password = NoPassword
       THEN resp' = Reply(rq, 400)
            /\ UNCHANGED << issued, redisQueue, rotated, loggedOut >>
       ELSE /\ dbQueue = << >>
            /\ IF ~dbOk
               THEN resp' = Thrown(rq, NoUser)
                    /\ UNCHANGED << issued, redisQueue, rotated, loggedOut >>
               ELSE IF user = NoUser
               THEN resp' = Reply(rq, 401)
                    /\ UNCHANGED << issued, redisQueue, rotated, loggedOut >>
               ELSE /\ issued' = issued \cup {accessToken, refreshToken}
                    /\ IF deployment = "serverless"
                       THEN /\ redisQueue' = addRefreshTokenToRedis(redisQueue, refreshToken)
                            /\ rotated' = rotated \ {refreshToken}
                            /\ loggedOut' = loggedOut \ {refreshToken}
                       ELSE UNCHANGED << redisQueue, rotated, loggedOut >>
                    /\ resp' = [Reply(rq, 200) EXCEPT !.id = user.id,
                                   !.accessToken = accessToken,
                                   !.refreshToken = refreshToken]
    /\ Served /\ Clock /\ Config /\ EventStore /\ ResetFlow
    /\ UNCHANGED << users, registry >>

(* POST /users/logout *)

Logout(auth, refreshToken) ==
    /\ nreq < MaxRequests
    /\ LET rq == [Request("POST /users/logout", auth) EXCEPT !.token = refreshToken]
           v == verifyToken(auth, now)
       IN
       IF deployment = "standalone"
       THEN resp' = Reply(rq, 200) /\ UNCHANGED << redisQueue, loggedOut >>
       ELSE IF v.status # 0
       THEN resp' = Rejected(rq, v)
            /\ UNCHANGED << redisQueue, loggedOut >>
       ELSE /\ redisQueue' = removeRefreshTokenFromRedis(redisQueue, refreshToken)
            /\ loggedOut' = loggedOut \cup ({refreshToken} \ {NoToken})
            /\ resp' = [Reply(rq, 200) EXCEPT !.user = v.user]
    /\ Served /\ Clock /\ Config /\ EventStore /\ ResetFlow
    /\ UNCHANGED << users, registry, issued, rotated >>

(* POST /users/refresh *)

Refresh(refreshToken) ==
    /\ nreq < MaxRequests
    /\ LET rq == [Request("POST /users/refresh", NoToken) EXCEPT !.token = refreshToken]
           user == jwtDecode(refreshToken)
           newAccessToken == generateAccessToken(user, now)
           newRefreshToken == generateRefreshToken(user, now)
       IN
       IF refreshToken = NoToken
       THEN resp' = Reply(rq, 401)
            /\ UNCHANGED << issued, redisQueue, rotated, loggedOut >>
       ELSE IF deployment = "serverless"
               /\ ~Truthy(refreshTokenExistsInRedis(refreshToken))
       THEN resp' = Reply(rq, 403)
            /\ UNCHANGED << issued, redisQueue, rotated, loggedOut >>
       ELSE IF ~jwtVerify(refreshToken, "refresh", now)
       THEN resp' = Reply(rq, 403)
            /\ UNCHANGED << issued, redisQueue, rotated, loggedOut >>
       ELSE /\ issued' = issued \cup {newAccessToken, newRefreshToken}
            /\ IF deployment = "serverless"
               THEN /\ redisQueue' = addRefreshTokenToRedis(
                                        removeRefreshTokenFromRedis(redisQueue, refreshToken),
                                        newRefreshToken)
                    /\ rotated' = (rotated \cup {refreshToken}) \ {newRefreshToken}
                    /\ loggedOut' = loggedOut \ {newRefreshToken}
               ELSE UNCHANGED << redisQueue, rotated, loggedOut >>
            /\ resp' = [Reply(rq, 200) EXCEPT !.user = user,
                           !.accessToken = newAccessToken,
                           !.refreshToken = newRefreshToken]
    /\ Served /\ Clock /\ Config /\ EventStore /\ ResetFlow
    /\ UNCHANGED << users, registry >>

(* The Redis connection performs the next command *)

RedisApply ==
    /\ redisQueue # << >>
    /\ LET c == Head(redisQueue) IN
       registry' = IF c.op = "sAdd" THEN registry \cup {c.token}
                   ELSE registry \ {c.token}
    /\ redisQueue' = Tail(redisQueue)
    /\ Clock /\ Config /\ EventStore /\ ResetFlow
    /\ UNCHANGED << users, nreq, issued, rotated, loggedOut, resp >>

(* POST /forgot-password (standalone) *)

ForgotPassword(email, dbOk, mailOk) ==
    /\ deployment = "standalone"
    /\ nreq < MaxRequests
    /\ LET rq == [Request("POST /forgot-password", NoToken) EXCEPT !.email = email]
           user == findUserBasedOnEmail(email)
           resetToken == generateResetToken(user, now)
       IN
       IF email = ""
       THEN resp' = Reply(rq, 400) /\ UNCHANGED issued
       ELSE /\ dbQueue = << >>
            /\ IF ~dbOk
               THEN resp' = Thrown(rq, NoUser) /\ UNCHANGED issued
               ELSE IF user = NoUser
               THEN resp' = Reply(rq, 404) /\ UNCHANGED issued
               ELSE IF ~mailOk           \* transporter.sendMail rejects
               THEN resp' = Thrown(rq, NoUser) /\ UNCHANGED issued
               ELSE /\ issued' = issued \cup {resetToken}
                    /\ resp' = [Reply(rq, 200) EXCEPT !.id = user.id]
    /\ Served /\ Clock /\ Config /\ EventStore /\ Sessions /\ ResetFlow
    /\ UNCHANGED users

\* isValidResetToken with a used-token check added
isValidResetTokenOnce(token, t) == jwtVerify(token, "reset", t) /\ token \notin usedReset

isValidResetToken(token, t) == jwtVerify(token, "reset", t)

\* null when jwt.verify throws
getUserIdFromResetToken(token, t) ==
    IF jwtVerify(token, "reset", t) THEN token.id ELSE 0

\* An async function called without await: the UPDATE is on the connection and
\* the caller holds the promise.
setNewPassword(q, password, userId) == Append(q, [id |-> userId, password |-> password])

(* POST /verify-reset-token (standalone) *)

VerifyResetToken(resetToken) ==
    /\ deployment = "standalone"
    /\ nreq < MaxRequests
    /\ LET rq == [Request("POST /verify-reset-token", NoToken) EXCEPT !.token = resetToken]
       IN
       IF resetToken = NoToken
       THEN resp' = Reply(rq, 400)
       ELSE IF ~isValidResetToken(resetToken, now)
       THEN resp' = Reply(rq, 403)
       ELSE resp' = Reply(rq, 200)
    /\ Served /\ Clock /\ Config /\ EventStore /\ Sessions /\ ResetFlow
    /\ UNCHANGED << users, issued >>

(* POST /set-new-password (standalone) *)

SetNewPassword(resetToken, password) ==
    /\ deployment = "standalone"
    /\ nreq < MaxRequests
    /\ LET rq == [Request("POST /set-new-password", NoToken) EXCEPT
                     !.token = resetToken, !.password = password,
                     !.seen = resetToken \in usedReset]
           validToken == isValidResetToken(resetToken, now)
           userId == getUserIdFromResetToken(resetToken, now)
           newPasswordSet == "promise"
       IN
       IF resetToken = NoToken \/ password = NoPassword
       THEN resp' = Reply(rq, 400) /\ UNCHANGED << dbQueue, pwReset, usedReset >>
       ELSE IF ~validToken
       THEN resp' = Reply(rq, 403) /\ UNCHANGED << dbQueue, pwReset, usedReset >>
       ELSE /\ dbQueue' = setNewPassword(dbQueue, password, userId)
            /\ IF ~Truthy(newPasswordSet)
               THEN resp' = Reply(rq, 403) /\ UNCHANGED << pwReset, usedReset >>
               ELSE /\ resp' = [Reply(rq, 200) EXCEPT !.id = userId]
                    /\ pwReset' = [pwReset EXCEPT ![userId] = password]
                    /\ usedReset' = usedReset \cup {resetToken}
    /\ Served /\ Clock /\ Config /\ EventStore /\ Sessions
    /\ UNCHANGED << users, issued >>

(* The MySQL connection performs the next statement nobody awaits, or fails it *)

DbApply(ok) ==
    /\ dbQueue # << >>
    /\ LET c == Head(dbQueue) IN
       users' = IF ok THEN UpdatePassword(users, c.id, c.password) ELSE users
    /\ dbQueue' = Tail(dbQueue)
    /\ Clock /\ Config /\ EventStore /\ Sessions
    /\ UNCHANGED << nreq, issued, pwReset, usedReset, resp >>

----------------------------------------------------------------------------
(* Routes behind [postLimiter, verifyToken] *)

Others == Config /\ Clock /\ Sessions /\ ResetFlow /\ UNCHANGED << users, issued >>

(* GET /events *)
GetEvents(auth, dbOk) ==
    /\ nreq < MaxRequests
    /\ LET rq == Request("GET /events", auth)
           v == verifyToken(auth, now)
       IN
       IF v.status # 0
       THEN resp' = Rejected(rq, v)
       ELSE /\ dbQueue = << >>
            /\ resp' = IF ~dbOk THEN Thrown(rq, v.user)
                       ELSE [Reply(rq, 200) EXCEPT !.user = v.user,
                                !.rows = getEvents(v.user.id)]
    /\ Served /\ Others /\ EventStore

(* GET /events/date?date= *)
GetEventsForDate(auth, date, dbOk) ==
    /\ nreq < MaxRequests
    /\ LET rq == [Request("GET /events/date", auth) EXCEPT !.id = date]
           v == verifyToken(auth, now)
       IN
       IF v.status # 0
       THEN resp' = Rejected(rq, v)
       ELSE /\ dbQueue = << >>
            /\ resp' = IF ~dbOk THEN Thrown(rq, v.user)
                       ELSE [Reply(rq, 200) EXCEPT !.user = v.user,
                                !.rows = getEventForCertainDate(date, v.user.id)]
    /\ Served /\ Others /\ EventStore

(* GET /events/:id *)
GetEvent(auth, id, dbOk) ==
    /\ nreq < MaxRequests
    /\ LET rq == [Request("GET /events/:id", auth) EXCEPT !.id = id]
           v == verifyToken(auth, now)
       IN
       IF v.status # 0
       THEN resp' = Rejected(rq, v)
       ELSE /\ dbQueue = << >>
            /\ resp' = IF ~dbOk THEN Thrown(rq, v.user)
                       ELSE [Reply(rq, 200) EXCEPT !.user = v.user,
                                !.rows = getEventById(id, v.user.id)]
    /\ Served /\ Others /\ EventStore

(* POST /events *)
PostEvent(auth, event, dbOk) ==
    /\ nreq < MaxRequests
    /\ LET rq == Request("POST /events", auth)
           v == verifyToken(auth, now)
       IN
       IF v.status # 0
       THEN resp' = Rejected(rq, v) /\ EventStore
       ELSE /\ dbQueue = << >>
            /\ IF ~dbOk
               THEN resp' = Thrown(rq, v.user) /\ EventStore
               ELSE /\ events' = createEvent(event, v.user.id)
                    /\ nextEventId' = nextEventId + 1
                    /\ resp' = [Reply(rq, 201) EXCEPT !.user = v.user, !.id = nextEventId]
    /\ Served /\ Others

(* DELETE /events/:id *)
DeleteEvent(auth, id, dbOk) ==
    /\ nreq < MaxRequests
    /\ LET rq == [Request("DELETE /events/:id", auth) EXCEPT !.id = id]
           v == verifyToken(auth, now)
           removedEvent == "true"
       IN
       IF v.status # 0
       THEN resp' = Rejected(rq, v) /\ EventStore
       ELSE /\ dbQueue = << >>
            /\ IF ~dbOk
               THEN resp' = Thrown(rq, v.user) /\ EventStore
               ELSE /\ events' = removeEvent(id, v.user.id)
                    /\ UNCHANGED nextEventId
                    /\ resp' = [Reply(rq, IF ~Truthy(removedEvent) THEN 404 ELSE 204)
                                   EXCEPT !.user = v.user]
    /\ Served /\ Others

(* PUT /events/:id *)
PutEvent(auth, id, body, dbOk) ==
    /\ nreq < MaxRequests
    /\ LET rq == [Request("PUT /events/:id", auth) EXCEPT !.id = id]
           v == verifyToken(auth, now)
           eventUpdated == "true"
       IN
       IF v.status # 0
       THEN resp' = Rejected(rq, v) /\ EventStore
       ELSE IF body.from_date = 0 \/ body.name = ""
       THEN resp' = [Reply(rq, 400) EXCEPT !.user = v.user] /\ EventStore
       ELSE /\ dbQueue = << >>
            /\ IF ~dbOk
               THEN resp' = Thrown(rq, v.user) /\ EventStore
               ELSE /\ events' = updateEvent(id, body)
                    /\ UNCHANGED nextEventId
                    /\ resp' = [Reply(rq, IF ~Truthy(eventUpdated) THEN 404 ELSE 204)
                                   EXCEPT !.user = v.user]
    /\ Served /\ Others

(* POST /send-message: `twilio` is bound nowhere in either program, so the  *)
(* call twilio(accountSid, authToken) throws a ReferenceError.              *)
SendMessage(auth, complete) ==
    /\ nreq < MaxRequests
    /\ LET rq == Request("POST /send-message", auth)
           v == verifyToken(auth, now)
       IN
       IF v.status # 0
       THEN resp' = Rejected(rq, v)
       ELSE IF ~complete
       THEN resp' = [Reply(rq, 400) EXCEPT !.user = v.user]
       ELSE resp' = Thrown(rq, v.user)
    /\ Served /\ Others /\ EventStore

(* GET /users/:id *)
GetUser(auth, id, dbOk) ==
    /\ nreq < MaxRequests
    /\ LET rq == [Request("GET /users/:id", auth) EXCEPT !.id = id]
           v == verifyToken(auth, now)
           user == getUserById(id)
       IN
       IF v.status # 0
       THEN resp' = Rejected(rq, v)
       ELSE /\ dbQueue = << >>
            /\ resp' = IF ~dbOk THEN Thrown(rq, v.user)
                       ELSE IF user = {}
                       THEN [Reply(rq, 404) EXCEPT !.user = v.user]
                       ELSE [Reply(rq, 200) EXCEPT !.user = v.user, !.rows = user]
    /\ Served /\ Others /\ EventStore

(* PATCH /users/:id: the statement fails when the database is down or `key` *)
(* names no column.                                                         *)
PatchUser(auth, id, key, value, dbOk) ==
    /\ nreq < MaxRequests
    /\ LET rq == [Request("PATCH /users/:id", auth) EXCEPT
                     !.id = id, !.key = key, !.value = value]
           v == verifyToken(auth, now)
           updated == "true"
       IN
       IF v.status # 0
       THEN resp' = Rejected(rq, v) /\ UNCHANGED users
       ELSE /\ dbQueue = << >>
            /\ IF ~dbOk \/ key \notin UserColumns
               THEN resp' = Thrown(rq, v.user) /\ UNCHANGED users
               ELSE /\ users' = updateUserData(id, value, key)
                    /\ resp' = [Reply(rq, IF ~Truthy(updated) THEN 404 ELSE 204)
                                   EXCEPT !.user = v.user]
    /\ Served /\ Config /\ Clock /\ Sessions /\ ResetFlow /\ EventStore
    /\ UNCHANGED issued

(* POST /upload-profile-image/:userId: uploadFile catches the failure of    *)
(* S3.send and returns false.                                              *)
UploadProfileImage(userId, image, s3Ok) ==
    /\ nreq < MaxRequests
    /\ LET rq == [Request("POST /upload-profile-image/:userId", NoToken) EXCEPT !.id = userId]
           uploaded == IF s3Ok THEN "true" ELSE "false"
       IN
       IF ~image
       THEN resp' = Reply(rq, 400)
       ELSE IF ~Truthy(uploaded)
       THEN resp' = Reply(rq, 500)
       ELSE resp' = Reply(rq, 200)
    /\ Served /\ Others /\ EventStore

(* GET /get-profile-image/:userId: getFile returns undefined when S3.send   *)
(* fails, the object being absent included; otherwise the body is piped.    *)
GetProfileImage(userId, s3Ok) ==
    /\ nreq < MaxRequests
    /\ LET rq == [Request("GET /get-profile-image/:userId", NoToken) EXCEPT !.id = userId]
           file == IF s3Ok THEN "body" ELSE "undefined"
       IN
       IF ~Truthy(file)
       THEN resp' = Reply(rq, 204)
       ELSE resp' = Reply(rq, 200)
    /\ Served /\ Others /\ EventStore

(* Time passes *)
Tick(d) ==
    /\ ticks < MaxTicks
    /\ now' = now + d
    /\ ticks' = ticks + 1
    /\ Config /\ EventStore /\ Sessions /\ ResetFlow
    /\ UNCHANGED << users, nreq, issued, resp >>

----------------------------------------------------------------------------

EventBodies == [name : {"n2"}, from_date : Days]
PutBodies == [name : {"n2", ""}, from_date : {2}] \cup [name : {"n2"}, from_date : {0}]
EventIds == 1 .. 3

NextUsers ==
    \/ \E e \in Emails \cup NewEmails, p \in Passwords, c \in Passwords,
          complete \in BOOLEAN, dbOk \in BOOLEAN : Register(e, p, c, complete, dbOk)
    \/ \E e \in Emails \cup {""}, p \in Passwords, dbOk \in BOOLEAN : Login(e, p, dbOk)

NextSessions ==
    \/ \E a \in AuthHeaders, t \in RefreshTokens : Logout(a, t)
    \/ \E t \in RefreshTokens : Refresh(t)
    \/ RedisApply

NextReset ==
    \/ \E e \in Emails \cup NewEmails \cup {""}, dbOk \in BOOLEAN, mailOk \in BOOLEAN :
          ForgotPassword(e, dbOk, mailOk)
    \/ \E t \in ResetTokens : VerifyResetToken(t)
    \/ \E t \in ResetTokens, p \in Passwords \cup {NoPassword} : SetNewPassword(t, p)
    \/ \E ok \in BOOLEAN : DbApply(ok)

NextEvents ==
    \/ \E a \in AuthHeaders, dbOk \in BOOLEAN : GetEvents(a, dbOk)
    \/ \E a \in AuthHeaders, d \in Days, dbOk \in BOOLEAN : GetEventsForDate(a, d, dbOk)
    \/ \E a \in AuthHeaders, i \in EventIds, dbOk \in BOOLEAN : GetEvent(a, i, dbOk)
    \/ \E a \in AuthHeaders, b \in EventBodies, dbOk \in BOOLEAN : PostEvent(a, b, dbOk)
    \/ \E a \in AuthHeaders, i \in EventIds, dbOk \in BOOLEAN : DeleteEvent(a, i, dbOk)
    \/ \E a \in AuthHeaders, i \in EventIds, b \in PutBodies, dbOk \in BOOLEAN :
          PutEvent(a, i, b, dbOk)
    \/ \E a \in AuthHeaders, complete \in BOOLEAN : SendMessage(a, complete)

UserIds == 1 .. 3
PatchKeys == UserColumns \cup {"nope"}
PatchValues == {"p2", "c@x"}

NextUserRows ==
    \/ \E a \in AuthHeaders, i \in UserIds, dbOk \in BOOLEAN : GetUser(a, i, dbOk)
    \/ \E a \in AuthHeaders, i \in UserIds, k \in PatchKeys, x \in PatchValues,
          dbOk \in BOOLEAN : PatchUser(a, i, k, x, dbOk)

NextImages ==
    \/ \E i \in UserIds, image \in BOOLEAN, s3Ok \in BOOLEAN : UploadProfileImage(i, image, s3Ok)
    \/ \E i \in UserIds, s3Ok \in BOOLEAN : GetProfileImage(i, s3Ok)

NextClock == \E d \in TickSteps : Tick(d)

Next ==
    \/ NextUsers \/ NextSessions \/ NextReset \/ NextEvents \/ NextUserRows
    \/ NextImages \/ NextClock

Spec == Init /\ [][Next]_vars

(* The program seen through one group of routes at a time *)

\* registration, login and the session registry
NextUsersAndSessions == NextUsers \/ NextSessions \/ NextClock

SpecSessions == Init /\ [][NextUsersAndSessions]_vars

\* the password-reset flow of the standalone program, and login
InitStandalone == Init /\ deployment = "standalone"

NextLoginAndReset ==
    \/ \E e \in Emails, p \in Passwords, dbOk \in BOOLEAN : Login(e, p, dbOk)
    \/ NextReset
    \/ NextClock

SpecReset == InitStandalone /\ [][NextLoginAndReset]_vars

\* the routes behind verifyToken
NextProtected ==
    \/ NextEvents
    \/ \E a \in AuthHeaders, t \in RefreshTokens : Logout(a, t)
    \/ RedisApply
    \/ NextClock

SpecProtected == Init /\ [][NextProtected]_vars

\* login, logout and refresh of the serverless program with its registry
InitTracking == Init /\ deployment = "serverless"

NextRegistry ==
    \/ \E e \in Emails, p \in Passwords, dbOk \in BOOLEAN : Login(e, p, dbOk)
    \/ NextSessions
    \/ NextClock

SpecRegistry == InitTracking /\ [][NextRegistry]_vars

\* the rows of table users: login, GET and PATCH /users/:id
NextLoginAndUserRows ==
    \/ \E e \in Emails \cup NewEmails, p \in Passwords, dbOk \in BOOLEAN : Login(e, p, dbOk)
    \/ NextUserRows
    \/ RedisApply
    \/ NextClock

SpecUsers == Init /\ [][NextLoginAndUserRows]_vars

\* the routes that call a collaborator: database, S3, mail, SMS
NextCollaborators ==
    \/ NextUsers
    \/ \E e \in Emails \cup NewEmails \cup {""}, dbOk \in BOOLEAN, mailOk \in BOOLEAN :
          ForgotPassword(e, dbOk, mailOk)
    \/ \E a \in AuthHeaders, complete \in BOOLEAN : SendMessage(a, complete)
    \/ NextImages
    \/ RedisApply
    \/ NextClock

SpecCollaborators == Init /\ [][NextCollaborators]_vars

\* the date filter, on a server in any time zone
ServerZones == -12 .. 14

InitAnyZone ==
    /\ deployment \in Deployments
    /\ express \in ExpressVersions
    /\ tz \in ServerZones
    /\ users = << [email |-> "a@x", password |-> "p1"],
                  [email |-> "b@x", password |-> "p1"] >>
    /\ events = {[id |-> 1, user_id |-> 1, name |-> "n1", from_date |-> 1],
                 [id |-> 2, user_id |-> 2, name |-> "n1", from_date |-> 1]}
    /\ nextEventId = 3
    /\ registry = IF deployment = "serverless"
                  THEN {generateRefreshToken(UserA, 0)} ELSE {}
    /\ redisQueue = << >>
    /\ dbQueue = << >>
    /\ now = 0
    /\ ticks = 0
    /\ nreq = 0
    /\ issued = {generateAccessToken(UserA, 0), generateRefreshToken(UserA, 0)}
    /\ rotated = {}
    /\ loggedOut = {}
    /\ pwReset = [i \in {1, 2} |-> NoPassword]
    /\ usedReset = {}
    /\ resp = NoResp

NextDate ==
    \/ \E a \in AuthHeaders, d \in Days, dbOk \in BOOLEAN : GetEventsForDate(a, d, dbOk)
    \/ NextClock

SpecDate == InitAnyZone /\ [][NextDate]_vars

----------------------------------------------------------------------------
(* Properties *)

RequestStep == nreq' = nreq + 1
RefreshStep == RequestStep /\ resp'.route = "POST /users/refresh"
Tracking == deployment = "serverless"
\* every command sent to the registry has been performed
Settled == redisQueue = << >>

\* C1: with session tracking, /users/refresh answers 200 with a new token pair
\* exactly for a correctly signed refresh token that is in the registry when
\* the request is handled; a token outside the registry gets 403 and no tokens.
\* (Stated for requests that find no registry command pending.)
C1_RefreshIffSignedAndLive ==
    [][ (Tracking /\ Settled /\ RefreshStep /\ resp'.token # NoToken) =>
            /\ (resp'.status = 200) <=>
                   (resp'.token.secret = "refresh" /\ resp'.token \in registry)
            /\ resp'.token \notin registry =>
                   (resp'.status = 403 /\ resp'.refreshToken = NoToken) ]_vars

\* C2: with session tracking, a refresh token that /users/refresh has already
\* exchanged (response sent, token not issued again since) is never honoured
\* by a later /users/refresh.  (Stated for requests that find no registry
\* command pending.)
C2_RefreshTokenHonouredOnce ==
    [][ (Tracking /\ Settled /\ RefreshStep /\ resp'.token \in rotated) =>
            resp'.status # 200 ]_vars

\* C3: with session tracking, once /users/logout has answered 200 for refresh
\* token t, no later /users/refresh with t is honoured, and the logout asks the
\* registry to remove t and nothing else.  (The refusal is stated for requests
\* that find no registry command pending.)
C3_LogoutRevokesExactlyThatToken ==
    [][ /\ (Tracking /\ Settled /\ RefreshStep /\ resp'.token \in loggedOut) =>
               resp'.status # 200
        /\ (Tracking /\ RequestStep /\ resp'.route = "POST /users/logout"
                /\ resp'.status = 200) =>
               /\ redisQueue' = Append(redisQueue, [op |-> "sRem", token |-> resp'.token])
               /\ registry' = registry ]_vars

\* C4: no request changes or deletes an event row owned by a user other than
\* the one the request's access token names.
C4_EventWriteIsolation ==
    [][ RequestStep =>
            \A e \in events : e.user_id # resp'.auth.id => e \in events' ]_vars

\* C5: every row that GET /events, GET /events/date and GET /events/:id return
\* is owned by the user the request's access token names.
EventReads == {"GET /events", "GET /events/date", "GET /events/:id"}

C5_EventReadIsolation ==
    resp.route \in EventReads => \A r \in resp.rows : r.user_id = resp.auth.id

\* its case: the caller gets rows back while another user's rows are stored
C5_Witness ==
    /\ resp.route = "GET /events" /\ resp.status = 200 /\ resp.rows # {}
    /\ \E e \in events : e.user_id # resp.auth.id

\* C6: on a route behind verifyToken, a request without Authorization header
\* is answered 401 and one whose bearer token is badly signed or expired 403,
\* both by verifyToken and with no store touched; with a valid access token the
\* handler runs with the token's {id, email} as req.user.
ProtectedRoutes ==
    EventReads \cup {"POST /events", "PUT /events/:id", "DELETE /events/:id",
                     "POST /send-message", "GET /users/:id", "PATCH /users/:id"}
        \cup (IF Tracking THEN {"POST /users/logout"} ELSE {})

ValidAccessToken(token, t) == token.secret = "access" /\ t < token.exp

StoresUntouched ==
    UNCHANGED << users, events, nextEventId, registry, redisQueue, dbQueue >>

C6_RequestAuthenticator ==
    [][ (RequestStep /\ resp'.route \in ProtectedRoutes) =>
            /\ resp'.auth = NoToken =>
                   /\ resp'.status = 401 /\ resp'.by = "verifyToken"
                   /\ resp'.user = NoUser /\ StoresUntouched
            /\ (resp'.auth # NoToken /\ ~ValidAccessToken(resp'.auth, now)) =>
                   /\ resp'.status = 403 /\ resp'.by = "verifyToken"
                   /\ resp'.user = NoUser /\ StoresUntouched
            /\ ValidAccessToken(resp'.auth, now) =>
                   /\ resp'.by # "verifyToken"
                   /\ resp'.user = [id |-> resp'.auth.id, email |-> resp'.auth.email]
      ]_vars

\* its case: an access token the server signed is refused once it has expired
C6_Witness ==
    /\ resp.route \in ProtectedRoutes /\ resp.by = "verifyToken"
    /\ resp.status = 403 /\ resp.auth.secret = "access"

\* C7: when /set-new-password answers 200 for user u and password p, the stored
\* password of u is p; from then on /users/login for u succeeds with p and
\* answers 401 with any other password.
SetNewPasswordStep == RequestStep /\ resp'.route = "POST /set-new-password"

C7_PasswordResetTakesEffect ==
    [][ /\ (SetNewPasswordStep /\ resp'.status = 200) =>
               users'[resp'.id].password = resp'.password
        /\ LET u == FirstRowWithEmail(resp'.email) IN
           (RequestStep /\ resp'.route = "POST /users/login" /\ resp'.by = "handler"
                /\ resp'.status # 400 /\ u \in DOMAIN pwReset
                /\ pwReset[u] # NoPassword) =>
               resp'.status = (IF resp'.password = pwReset[u] THEN 200 ELSE 401) ]_vars

\* C8: a reset token that /set-new-password has accepted once is rejected by
\* every later /set-new-password, which then issues no password update.
C8_ResetTokenSingleUse ==
    [][ (SetNewPasswordStep /\ resp'.token \in usedReset) =>
            (resp'.status # 200 /\ dbQueue' = dbQueue) ]_vars

\* C8 as amended: a reset token is not consumed by use.  /set-new-password with
\* a token and a password answers 200 and issues the password update for the
\* token's user whenever the token is correctly signed and not yet expired,
\* used before or not; otherwise it answers 403 and issues no update.
C8_ResetTokenValidUntilExpiry ==
    [][ (SetNewPasswordStep /\ resp'.token # NoToken /\ resp'.password # NoPassword) =>
            IF resp'.token.secret = "reset" /\ now < resp'.token.exp
            THEN /\ resp'.status = 200
                 /\ dbQueue' = Append(dbQueue, [id |-> resp'.token.id,
                                                password |-> resp'.password])
            ELSE resp'.status = 403 /\ dbQueue' = dbQueue ]_vars

\* its case: a token accepted before is accepted again
C8_Witness ==
    /\ resp.route = "POST /set-new-password" /\ resp.status = 200 /\ resp.seen
    /\ dbQueue # << >>

\* C9: a complete registration whose email already belongs to a stored user is
\* answered 409 and inserts nothing, whatever the password; no two rows of
\* users share an email.
C9_RegistrationUniqueness ==
    [][ /\ (RequestStep /\ resp'.route = "POST /users/register"
                /\ resp'.by = "handler" /\ resp'.status # 400
                /\ RowsWithEmail(resp'.email) # {}) =>
               (resp'.status = 409 /\ users' = users)
        /\ \A i, j \in DOMAIN users' : users'[i].email = users'[j].email => i = j ]_vars

\* C10: whenever a handler throws or a call it awaits fails, the catch-all
\* error middleware answers with 500, in both deployments.
HandlerFailed == resp.by \in {"unanswered", "finalhandler", "errorMiddleware"}

C10_CatchAllErrorMiddleware ==
    HandlerFailed => (resp.by = "errorMiddleware" /\ resp.status = 500)

\* C11: in every server time zone from UTC-12 to UTC+14, the value that
\* getEventForCertainDate binds in its query for a requested calendar day d
\* names day d, and GET /events/date answers with exactly the caller's rows
\* whose from_date falls on d.
C11_DateFilterInAnyZone ==
    [][ (RequestStep /\ resp'.route = "GET /events/date" /\ resp'.status = 200) =>
            /\ parsedDate(resp'.id, tz) = resp'.id
            /\ resp'.rows = {e \in events : e.user_id = resp'.auth.id
                                              /\ e.from_date = resp'.id} ]_vars

\* C12: GET, PUT and DELETE /events/:id by an authenticated user, for an id
\* that names another user's event or no event, are answered 404: never 200 or
\* 204, and never with the other user's row.
EventByIdRoutes == {"GET /events/:id", "PUT /events/:id", "DELETE /events/:id"}

C12_NotFoundForForeignOrAbsentEvent ==
    [][ (RequestStep /\ resp'.route \in EventByIdRoutes /\ resp'.by = "handler"
             /\ resp'.status # 400 /\ getEventById(resp'.id, resp'.auth.id) = {}) =>
            (resp'.status = 404 /\ resp'.rows = {}) ]_vars

\* C13: with session tracking, login, logout and refresh answer 200 having
\* only sent their registry commands: the registry is as it was before the
\* request and the sRem of the revoked token and the sAdd of the new token
\* are pending behind whatever was pending already.  So a response can be
\* out while the revoked token is still a member and the new one is not yet.
RegistryCommands(r) ==
    IF r.route = "POST /users/login"
    THEN << [op |-> "sAdd", token |-> r.refreshToken] >>
    ELSE IF r.route = "POST /users/logout"
    THEN << [op |-> "sRem", token |-> r.token] >>
    ELSE << [op |-> "sRem", token |-> r.token],
            [op |-> "sAdd", token |-> r.refreshToken] >>

SessionRoutes == {"POST /users/login", "POST /users/logout", "POST /users/refresh"}

C13_RegistryCommandsNotAwaited ==
    [][ (Tracking /\ RequestStep /\ resp'.route \in SessionRoutes
             /\ resp'.status = 200) =>
            /\ registry' = registry
            /\ redisQueue' = redisQueue \o RegistryCommands(resp') ]_vars

\* its case: the refresh response is out, the exchanged token is still a
\* member of the registry and the new one is not yet
C13_Witness ==
    /\ Tracking /\ resp.route = "POST /users/refresh" /\ resp.status = 200
    /\ resp.refreshToken # resp.token
    /\ resp.token \in registry /\ resp.refreshToken \notin registry

\* the same for logout and for login
C13_LogoutAnsweredTokenStillMember ==
    /\ Tracking /\ resp.route = "POST /users/logout" /\ resp.status = 200
    /\ resp.token \in registry

C13_LoginAnsweredTokenNotYetMember ==
    /\ Tracking /\ resp.route = "POST /users/login" /\ resp.status = 200
    /\ resp.refreshToken \notin registry

\* C14: PATCH /users/:id with a valid access token sets the named column of
\* the row with the path's id to the given value, whoever the caller is and
\* whichever column is named, the password included, and answers 204; when
\* no row has that id nothing changes and the answer is still 204, never 404.
C14_PatchUserUnrestricted ==
    [][ (RequestStep /\ resp'.route = "PATCH /users/:id" /\ resp'.by = "handler") =>
            /\ resp'.status = 204
            /\ resp'.key \in UserColumns
            /\ users' = [i \in DOMAIN users |->
                            IF i = resp'.id
                            THEN [users[i] EXCEPT ![resp'.key] = resp'.value]
                            ELSE users[i]] ]_vars

\* its case: the caller has overwritten another user's password
C14_Witness ==
    /\ resp.route = "PATCH /users/:id" /\ resp.status = 204
    /\ resp.key = "password" /\ resp.id \in DOMAIN users
    /\ resp.id # resp.auth.id
    /\ users[resp.id].password = resp.value /\ resp.value # "p1"

\* and: the path's id names no row
C14_AbsentIdAnswered204 ==
    /\ resp.route = "PATCH /users/:id" /\ resp.status = 204
    /\ resp.id \notin DOMAIN users

\* C15: every request that verifyToken lets through, or that needs no token,
\* is answered, whatever the database, S3, the mail transport or the SMS
\* client do: by its handler or, when that fails, by error handling.
C15_EveryRequestAnswered ==
    (resp.route # "none" /\ resp.by # "verifyToken") =>
        (resp.by # "unanswered" /\ resp.status # 0)

\* C16: with session tracking, every refresh token a client was given by
\* register, login or refresh, and that has not been revoked since, is a
\* member of the registry or has its sAdd on the way there.
AddPending(t) ==
    \E i \in DOMAIN redisQueue : redisQueue[i] = [op |-> "sAdd", token |-> t]

C16_IssuedRefreshTokensRegistered ==
    Tracking =>
        \A t \in Held("refresh") \ (rotated \cup loggedOut) :
            t \in registry \/ AddPending(t)

====
